---- MODULE Spec2Model ----
(***************************************************************************)
(* Model of pytorch_lightning/core/optimizer.py: the LightningOptimizer    *)
(* wrapper (construction, trainer attachment, the accumulation policy and  *)
(* the step() dispatcher).  The trainer, the wrapped optimizer, the        *)
(* profiler, the accelerator / precision backends and the closure are      *)
(* external collaborators: the model records every call step() makes on    *)
(* them, in order, in `trace`.                                             *)
(***************************************************************************)
EXTENDS Integers, Sequences, FiniteSets, TLC

\* ---------------------------------------------------------------- bounds
MaxBatchIdx == 3      \* trainer.batch_idx ranges over 0..MaxBatchIdx
MaxWindow   == 2      \* accumulation windows range up to MaxWindow
MaxBelowOne == 2      \* how many integers below 1 are offered to the constructor
MaxBatches  == 5      \* a training loop has 1..MaxBatches batches
MaxLoopWindow == 3    \* windows of a training loop range over 1..MaxLoopWindow

\* ------------------------------------------------------- python values
\* A python value offered as accumulate_grad_batches: None, an int, a float
\* (val counts halves: FloatVal(3) is 1.5) or a str.
NoneVal == [kind |-> "none", val |-> 0]
IntVal(n) == [kind |-> "int", val |-> n]
FloatVal(h) == [kind |-> "float", val |-> h]
StrVal == [kind |-> "str", val |-> 0]

AgbInputs ==
    {NoneVal, StrVal, FloatVal(3)} \cup {IntVal(n) : n \in (1 - MaxBelowOne)..MaxWindow}

\* Values the trainer holds in trainer.accumulate_grad_batches.
TrainerAgbValues == {IntVal(n) : n \in 1..MaxWindow}

ClosureInputs == {"None", "function", "callable", "noncallable"}
OverrideInputs == {"None", "True", "False"}
\* *args and **kwargs of a step() call
PassThroughInputs == {[args |-> << >>, kwargs |-> {}], [args |-> <<1>>, kwargs |-> {"lr"}]}

\* isinstance(v, int)
IsInt(v) == v.kind = "int"

\* Values held in an object's __dict__: a missing key, a reference to a
\* mutable object (object 0 is the wrapped optimizer itself) or a bound method.
Absent == [kind |-> "absent", val |-> 0]
RefVal(id) == [kind |-> "ref", val |-> id]
MethodVal == [kind |-> "method", val |-> 0]

\* Keys of optimizer.__dict__ and the two Horovod hooks of lines 76-78.
AttrNames == {"param_groups", "step", "_optimizer"}
HorovodNames == {"skip_synchronize", "synchronize"}
WrapperNames == AttrNames \cup HorovodNames

\* Mutable objects an attribute can refer to (a param_groups list) and what
\* such an object holds (its group's learning rate).
ObjIds == {1, 2}
LrValues == {0, 1}
AttrValues == {Absent, IntVal(1)} \cup {RefVal(o) : o \in ObjIds}

VARIABLES
    debug,              \* python's __debug__: assert statements are executed
    constructed,        \* a LightningOptimizer object exists
    initError,          \* what the last __init__ call raised ("none" if nothing)
    _trainer,           \* self._trainer: "None" or "proxy"
    _accumulate_grad_batches,                   \* self._accumulate_grad_batches
    _use_accumulate_grad_batches_from_trainer,  \* self._use_accumulate_grad_batches_from_trainer
    trainer,            \* the execution context's fields read by the wrapper
    pc,                 \* "idle", or "running" while step() is inside external code
    frame,              \* arguments and locals of the current / last step() call
    trace,              \* collaborator calls made by the current / last step() call
    raised,             \* what the last step() call raised ("none" if nothing)
    optimizer,          \* the wrapped optimizer: its __dict__ and whether its class has the Horovod hooks
    heap,               \* contents of the mutable objects attributes refer to
    self_dict,          \* the wrapper's __dict__ on the keys WrapperNames
    loop                \* the training loop in progress, if one is followed

vars == <<debug, constructed, initError, _trainer, _accumulate_grad_batches,
          _use_accumulate_grad_batches_from_trainer, trainer, pc, frame, trace, raised,
          optimizer, heap, self_dict, loop>>

wrapperVars == <<constructed, initError, _trainer, _accumulate_grad_batches,
                 _use_accumulate_grad_batches_from_trainer, self_dict>>
callVars == <<pc, frame, trace, raised>>
optimizerVars == <<optimizer, heap>>

\* ------------------------------------------------------ training loop
\* What is followed of a training loop that calls step() once per batch: its
\* number of batches, whether step() was called for the current batch, and
\* how many calls in a row have taken the accumulate branch.
NoLoop == [active |-> FALSE, num_batches |-> 0, called |-> FALSE, run |-> 0]

\* step() is called: line 102
LoopOnCall(l) == IF l.active THEN [l EXCEPT !.called = TRUE] ELSE l

\* step() enters a branch: lines 221, 235
LoopOnBranch(l, path) ==
    IF l.active
    THEN [l EXCEPT !.called = TRUE,
                   !.run = IF path = "accumulate" THEN @ + 1 ELSE 0]
    ELSE l

\* the trainer moves to another batch
LoopOnBatch(l) == IF l.active THEN [l EXCEPT !.called = FALSE] ELSE l

\* ------------------------------------------------------------ __init__
InitOutcome_LtZero(agb) ==
    IF debug /\ ~(agb.kind = "none" \/ IsInt(agb)) THEN "AssertionError"
    ELSE IF IsInt(agb) /\ agb.val < 0 THEN "MisconfigurationException"
    ELSE "ok"

\* lines 64-67: the assert, then the range check
InitOutcome(agb) ==
    IF debug /\ ~(agb.kind = "none" \/ IsInt(agb)) THEN "AssertionError"
    ELSE IF IsInt(agb) /\ agb.val < 1 THEN "MisconfigurationException"
    ELSE "ok"

NoDict == [n \in WrapperNames |-> Absent]

OptimDict_KeepsStep(opt) ==
    [n \in WrapperNames |-> IF n \in AttrNames THEN opt.dict[n] ELSE Absent]

\* lines 69-73: every item of optimizer.__dict__ but 'step', by reference
OptimDict(opt) ==
    [n \in WrapperNames |->
        IF n \in AttrNames /\ n # "step" THEN opt.dict[n] ELSE Absent]

\* lines 73-81: the copied dict, the Horovod hooks, then self._optimizer
WrapperDict(opt) ==
    LET copied == OptimDict(opt)
        hooked == IF opt.horovod
                  THEN [copied EXCEPT !["skip_synchronize"] = MethodVal,
                                      !["synchronize"] = MethodVal]
                  ELSE copied
    IN  [hooked EXCEPT !["_optimizer"] = RefVal(0)]

Construct(agb) ==
    /\ ~constructed
    /\ pc = "idle"
    /\ initError' = InitOutcome(agb)
    /\ IF InitOutcome(agb) = "ok"
       THEN /\ constructed' = TRUE
            /\ self_dict' = WrapperDict(optimizer)
            /\ _trainer' = "None"
            /\ _accumulate_grad_batches' = agb
            /\ _use_accumulate_grad_batches_from_trainer' = (agb.kind = "none")
       ELSE UNCHANGED <<constructed, _trainer, _accumulate_grad_batches,
                        _use_accumulate_grad_batches_from_trainer, self_dict>>
    /\ UNCHANGED <<debug, trainer, callVars, optimizerVars, loop>>

\* lines 85-86
_on_trainer_init ==
    /\ constructed
    /\ pc = "idle"
    /\ _trainer' = "proxy"
    /\ UNCHANGED <<debug, constructed, initError, _accumulate_grad_batches,
                   _use_accumulate_grad_batches_from_trainer, self_dict, trainer,
                   callVars, optimizerVars, loop>>

\* ------------------------------------------------- accumulation policy
\* (n % w == 0) in python for an int n >= 0: the exception it raises, if any,
\* and otherwise its value.
ModIsZero(n, w) ==
    IF w.kind \in {"none", "str"} THEN [raised |-> "TypeError", value |-> FALSE]
    ELSE IF w.val = 0 THEN [raised |-> "ZeroDivisionError", value |-> FALSE]
    ELSE LET d == IF w.val < 0 THEN 0 - w.val ELSE w.val
             m == IF w.kind = "float" THEN 2 * n ELSE n
         IN  [raised |-> "none", value |-> (m % d = 0)]

PolicyError(e) ==
    [raised |-> e, accumulate_grad_batches |-> NoneVal,
     accumulation_done |-> FALSE, is_final_batch |-> FALSE, value |-> FALSE]

WindowUsed_NotLive ==
    IF _use_accumulate_grad_batches_from_trainer
    THEN IntVal(1)
    ELSE _accumulate_grad_batches

\* lines 89-92: which window the policy uses
WindowUsed ==
    IF _use_accumulate_grad_batches_from_trainer
    THEN trainer.accumulate_grad_batches
    ELSE _accumulate_grad_batches

_accumulated_batches_reached_OffByOne ==
    IF _trainer = "None" THEN [raised |-> "AttributeError", value |-> FALSE]
    ELSE ModIsZero(trainer.batch_idx, WindowUsed)

\* lines 88-93
_accumulated_batches_reached ==
    IF _trainer = "None" THEN [raised |-> "AttributeError", value |-> FALSE]
    ELSE ModIsZero(trainer.batch_idx + 1, WindowUsed)

_should_accumulate_IgnoresFinalBatch ==
    LET reached == _accumulated_batches_reached
    IN  IF reached.raised # "none" THEN PolicyError(reached.raised)
        ELSE [raised |-> "none", accumulate_grad_batches |-> WindowUsed,
              accumulation_done |-> reached.value,
              is_final_batch |-> trainer.num_training_batches_reached,
              value |-> ~reached.value]

\* lines 95-100; the record also carries the locals of the two methods
_should_accumulate ==
    LET reached == _accumulated_batches_reached
    IN  IF reached.raised # "none" THEN PolicyError(reached.raised)
        ELSE [raised |-> "none", accumulate_grad_batches |-> WindowUsed,
              accumulation_done |-> reached.value,
              is_final_batch |-> trainer.num_training_batches_reached,
              value |-> ~(reached.value \/ trainer.num_training_batches_reached)]

\* ------------------------------------------------------------- step()
Ev(op, name, closure, args, kwargs) ==
    [op |-> op, name |-> name, closure |-> closure, args |-> args, kwargs |-> kwargs]
Mark(op, name) == Ev(op, name, "", << >>, {})

ClosureCheck_AnyCallable(closure) ==
    IF closure = "noncallable" THEN "MisconfigurationException" ELSE "ok"

\* lines 208-213: None is replaced, anything but a plain function is rejected
ClosureCheck(closure) ==
    IF closure = "None" THEN "ok"
    ELSE IF closure # "function" THEN "MisconfigurationException"
    ELSE "ok"

\* lines 207-210: profiler_name is assigned once; the closure-less case
\* assigns the differently spelled local profile_name
ProfilerName(closure) == "optimizer_step_and_closure"
ProfileName(closure) == IF closure = "None" THEN "optimizer_step" ELSE ""

\* lines 209: the closure step() goes on with
ClosureUsed(closure) == IF closure = "None" THEN "do_nothing_closure" ELSE closure

ResolveDecision_PolicyAlways(mos, policy) ==
    IF policy.value THEN "False" ELSE "True"

\* lines 215-216
ResolveDecision(mos, policy) ==
    IF mos = "None" THEN (IF policy.value THEN "False" ELSE "True") ELSE mos

TrainerAccess_SilentOnNone == "none"

\* lines 218, 222, 237: an attribute read on the local `trainer`, which is
\* None until _on_trainer_init has run
TrainerAccess == IF _trainer = "None" THEN "AttributeError" ELSE "none"

PathOf_PrecisionFirst(decision) ==
    IF decision = "True"
    THEN IF trainer.amp_backend THEN "amp"
         ELSE IF trainer.on_tpu THEN "tpu"
         ELSE "default"
    ELSE "accumulate"

\* lines 221-231, 237: the branch and the backend path
PathOf(decision) ==
    IF decision = "True"
    THEN IF trainer.on_tpu THEN "tpu"
         ELSE IF trainer.amp_backend THEN "amp"
         ELSE "default"
    ELSE "accumulate"

NoFrame ==
    [closure_arg |-> "None", make_optimizer_step_arg |-> "None",
     args |-> << >>, kwargs |-> {}, closure |-> "", profiler_name |-> "",
     profile_name |-> "", policy |-> PolicyError("none"), policy_used |-> FALSE,
     make_optimizer_step |-> "None", path |-> "none"]

EnterPath_SyncNotSuspended(path, closure, profiler_name, args, kwargs) ==
    IF path = "tpu" THEN
        << Mark("profile.enter", profiler_name),
           Ev("xm.optimizer_step", "", closure, << >>, kwargs) >>
    ELSE IF path = "amp" THEN
        << Ev("precision_backend.step", "", closure, << >>, {}) >>
    ELSE IF path = "default" THEN
        << Mark("profile.enter", profiler_name),
           Ev("optimizer.step", "", closure, args, kwargs) >>
    ELSE
        << Mark("block_ddp_sync.enter", ""),
           Mark("block_ddp_sync.exit", ""),
           Mark("profile.enter", "closure"),
           Ev("closure", "", closure, << >>, {}) >>

\* The calls step() makes up to and including the hand-over to external code
\* (the backend step routine, or the closure when accumulating).
EnterPath(path, closure, profiler_name, args, kwargs) ==
    IF path = "tpu" THEN
        << Mark("profile.enter", profiler_name),
           Ev("xm.optimizer_step", "", closure, << >>, kwargs) >>
    ELSE IF path = "amp" THEN
        << Ev("precision_backend.step", "", closure, << >>, {}) >>
    ELSE IF path = "default" THEN
        << Mark("profile.enter", profiler_name),
           Ev("optimizer.step", "", closure, args, kwargs) >>
    ELSE
        << Mark("block_ddp_sync.enter", ""),
           Mark("profile.enter", "closure"),
           Ev("closure", "", closure, << >>, {}) >>

\* The calls step() makes once the external code has returned (ok) or raised.
LeavePath_ZeroGradAlways(path, profiler_name, ok) ==
    IF path \in {"tpu", "default"} THEN
        << Mark("profile.exit", profiler_name) >> \o
        (IF ok THEN << Mark("optimizer.zero_grad", "") >> ELSE << >>)
    ELSE IF path = "amp" THEN
        (IF ok THEN << Mark("optimizer.zero_grad", "") >> ELSE << >>)
    ELSE
        << Mark("profile.exit", "closure"), Mark("block_ddp_sync.exit", "") >> \o
        (IF ok THEN << Mark("optimizer.zero_grad", "") >> ELSE << >>)

LeavePath_ResetsOnRaise(path, profiler_name, ok) ==
    IF path \in {"tpu", "default"} THEN
        << Mark("profile.exit", profiler_name), Mark("optimizer.zero_grad", "") >>
    ELSE IF path = "amp" THEN
        << Mark("optimizer.zero_grad", "") >>
    ELSE
        << Mark("profile.exit", "closure"), Mark("block_ddp_sync.exit", "") >>

LeavePath_ScopeLeaksOnRaise(path, profiler_name, ok) ==
    IF path \in {"tpu", "default"} THEN
        << Mark("profile.exit", profiler_name) >> \o
        (IF ok THEN << Mark("optimizer.zero_grad", "") >> ELSE << >>)
    ELSE IF path = "amp" THEN
        (IF ok THEN << Mark("optimizer.zero_grad", "") >> ELSE << >>)
    ELSE
        (IF ok THEN << Mark("profile.exit", "closure"), Mark("block_ddp_sync.exit", "") >>
         ELSE << >>)

LeavePath(path, profiler_name, ok) ==
    IF path \in {"tpu", "default"} THEN
        << Mark("profile.exit", profiler_name) >> \o
        (IF ok THEN << Mark("optimizer.zero_grad", "") >> ELSE << >>)
    ELSE IF path = "amp" THEN
        (IF ok THEN << Mark("optimizer.zero_grad", "") >> ELSE << >>)
    ELSE
        << Mark("profile.exit", "closure"), Mark("block_ddp_sync.exit", "") >>

\* step() from its entry to the hand-over to external code, or to the
\* exception it raises before that: lines 207-231 / 237-239.
StepCall(closure, mos, args, kwargs) ==
    /\ constructed
    /\ pc = "idle"
    /\ LET policy == IF mos = "None" THEN _should_accumulate ELSE PolicyError("none")
           decision == ResolveDecision(mos, policy)
           path == PathOf(decision)
           base == [closure_arg |-> closure, make_optimizer_step_arg |-> mos,
                    args |-> args, kwargs |-> kwargs, closure |-> ClosureUsed(closure),
                    profiler_name |-> ProfilerName(closure),
                    profile_name |-> ProfileName(closure),
                    policy |-> PolicyError("none"), policy_used |-> FALSE,
                    make_optimizer_step |-> mos, path |-> "none"]
       IN  IF ClosureCheck(closure) # "ok" THEN
               \* line 213
               /\ raised' = ClosureCheck(closure)
               /\ frame' = [base EXCEPT !.closure = closure]
               /\ trace' = << >>
               /\ pc' = "idle"
               /\ loop' = LoopOnCall(loop)
           ELSE IF mos = "None" /\ policy.raised # "none" THEN
               \* line 216 raises inside the policy
               /\ raised' = policy.raised
               /\ frame' = [base EXCEPT !.policy_used = TRUE]
               /\ trace' = << >>
               /\ pc' = "idle"
               /\ loop' = LoopOnCall(loop)
           ELSE IF TrainerAccess # "none" THEN
               \* line 222 (trainer.on_tpu) or 237 (trainer.train_loop) on None
               /\ raised' = TrainerAccess
               /\ frame' = [base EXCEPT !.make_optimizer_step = decision]
               /\ trace' = << >>
               /\ pc' = "idle"
               /\ loop' = LoopOnCall(loop)
           ELSE
               /\ raised' = "none"
               /\ frame' = [base EXCEPT !.policy = policy,
                                        !.policy_used = (mos = "None"),
                                        !.make_optimizer_step = decision,
                                        !.path = path]
               /\ trace' = EnterPath(path, ClosureUsed(closure),
                                     ProfilerName(closure), args, kwargs)
               /\ pc' = "running"
               /\ loop' = LoopOnBranch(loop, path)
    /\ UNCHANGED <<debug, wrapperVars, trainer, optimizerVars>>

BranchAtReturn_Recomputed ==
    PathOf(ResolveDecision(frame.make_optimizer_step_arg, _should_accumulate))

\* lines 221, 235: the code after the hand-over lies inside the branch chosen
\* by the local make_optimizer_step; nothing is read from the trainer again
BranchAtReturn == frame.path

\* The backend step routine (or the closure) returns or raises; step() leaves
\* its scopes, resets the gradients after a completed step, and returns:
\* lines 223-239.
StepReturn(ok) ==
    /\ pc = "running"
    /\ trace' = trace \o LeavePath(BranchAtReturn, frame.profiler_name, ok)
    /\ raised' = IF ok THEN "none" ELSE "Exception"
    /\ pc' = "idle"
    /\ UNCHANGED <<debug, wrapperVars, trainer, frame, optimizerVars, loop>>

\* --------------------------------------------------- execution context
\* The training loop moves to a batch (trainer.batch_idx and
\* trainer.train_loop._num_training_batches_reached()).
TrainerSetBatch(i, final) ==
    /\ trainer' = [trainer EXCEPT !.batch_idx = i,
                                  !.num_training_batches_reached = final]
    /\ loop' = LoopOnBatch(loop)
    /\ UNCHANGED <<debug, wrapperVars, callVars, optimizerVars>>

\* trainer.accumulate_grad_batches is rescheduled.
TrainerSetAccumulate(w) ==
    /\ trainer' = [trainer EXCEPT !.accumulate_grad_batches = w]
    /\ UNCHANGED <<debug, wrapperVars, callVars, optimizerVars, loop>>

\* trainer.on_tpu and trainer.amp_backend (TRUE: not None) are fixed before
\* training.
TrainerSetBackend(tpu, amp) ==
    /\ pc = "idle"
    /\ trainer' = [trainer EXCEPT !.on_tpu = tpu, !.amp_backend = amp]
    /\ UNCHANGED <<debug, wrapperVars, callVars, optimizerVars, loop>>

\* ------------------------------------------------ the wrapped optimizer
\* optimizer.<name> = value, or del optimizer.<name>, by the optimizer's owner.
OptimizerSetAttr(name, value) ==
    /\ optimizer' = [optimizer EXCEPT !.dict[name] = value]
    /\ UNCHANGED <<debug, wrapperVars, trainer, callVars, heap, loop>>

\* An in-place change of a mutable attribute value, such as
\* optimizer.param_groups[0]['lr'] = lr by a learning-rate scheduler.
OptimizerMutateInPlace(obj, lr) ==
    /\ heap[obj] # lr
    /\ heap' = [heap EXCEPT ![obj] = lr]
    /\ UNCHANGED <<debug, wrapperVars, trainer, callVars, optimizer, loop>>

\* getattr(obj, name) through a __dict__, showing the contents of a mutable
\* object next to its identity.
Lookup(dict, name) ==
    IF dict[name].kind = "ref" /\ dict[name].val \in ObjIds
    THEN [kind |-> "ref", val |-> dict[name].val, lr |-> heap[dict[name].val]]
    ELSE [kind |-> dict[name].kind, val |-> dict[name].val, lr |-> 0]

\* A torch optimizer as handed to the wrapper.
PlainOptimizer ==
    [dict |-> [n \in AttrNames |-> IF n = "param_groups" THEN RefVal(1) ELSE Absent],
     horovod |-> FALSE]

\* ------------------------------------------------------- specification
Init ==
    /\ debug \in BOOLEAN
    /\ constructed = FALSE
    /\ initError = "none"
    /\ _trainer = "None"
    /\ _accumulate_grad_batches = NoneVal
    /\ _use_accumulate_grad_batches_from_trainer = FALSE
    /\ trainer = [batch_idx |-> 0, num_training_batches_reached |-> FALSE,
                  accumulate_grad_batches |-> IntVal(1),
                  on_tpu |-> FALSE, amp_backend |-> FALSE]
    /\ pc = "idle"
    /\ frame = NoFrame
    /\ trace = << >>
    /\ raised = "none"
    /\ optimizer = PlainOptimizer
    /\ heap = [o \in ObjIds |-> 0]
    /\ self_dict = NoDict
    /\ loop = NoLoop

Next ==
    \/ \E agb \in AgbInputs : Construct(agb)
    \/ _on_trainer_init
    \/ \E c \in ClosureInputs, m \in OverrideInputs, p \in PassThroughInputs :
          StepCall(c, m, p.args, p.kwargs)
    \/ \E ok \in BOOLEAN : StepReturn(ok)
    \/ \E i \in 0..MaxBatchIdx, f \in BOOLEAN : TrainerSetBatch(i, f)
    \/ \E w \in TrainerAgbValues : TrainerSetAccumulate(w)
    \/ \E t \in BOOLEAN, a \in BOOLEAN : TrainerSetBackend(t, a)

Spec == Init /\ [][Next]_vars

\* Construction over any optimizer whose attributes keep changing.
InitAttrs ==
    /\ debug \in BOOLEAN
    /\ constructed = FALSE
    /\ initError = "none"
    /\ _trainer = "None"
    /\ _accumulate_grad_batches = NoneVal
    /\ _use_accumulate_grad_batches_from_trainer = FALSE
    /\ trainer = [batch_idx |-> 0, num_training_batches_reached |-> FALSE,
                  accumulate_grad_batches |-> IntVal(1),
                  on_tpu |-> FALSE, amp_backend |-> FALSE]
    /\ pc = "idle"
    /\ frame = NoFrame
    /\ trace = << >>
    /\ raised = "none"
    /\ optimizer \in {[PlainOptimizer EXCEPT !.horovod = h] : h \in BOOLEAN}
    /\ heap = [o \in ObjIds |-> 0]
    /\ self_dict = NoDict
    /\ loop = NoLoop

NextAttrs ==
    \/ \E agb \in AgbInputs : Construct(agb)
    \/ _on_trainer_init
    \/ \E n \in AttrNames, v \in AttrValues : OptimizerSetAttr(n, v)
    \/ \E o \in ObjIds, lr \in LrValues : OptimizerMutateInPlace(o, lr)

SpecAttrs == InitAttrs /\ [][NextAttrs]_vars

\* One training loop: an attached wrapper with an integer window, batches
\* 0 .. num_batches - 1 in order, the last one alone being final, and one
\* step() call per batch without an override.
InitLoop ==
    /\ debug \in BOOLEAN
    /\ constructed = TRUE
    /\ initError = "ok"
    /\ _trainer = "proxy"
    /\ _accumulate_grad_batches \in {NoneVal} \cup {IntVal(n) : n \in 1..MaxLoopWindow}
    /\ _use_accumulate_grad_batches_from_trainer = (_accumulate_grad_batches = NoneVal)
    /\ \E n \in 1..MaxBatches, w \in 1..MaxLoopWindow, t \in BOOLEAN, a \in BOOLEAN :
          /\ trainer = [batch_idx |-> 0, num_training_batches_reached |-> (n = 1),
                        accumulate_grad_batches |-> IntVal(w),
                        on_tpu |-> t, amp_backend |-> a]
          /\ loop = [active |-> TRUE, num_batches |-> n, called |-> FALSE, run |-> 0]
    /\ pc = "idle"
    /\ frame = NoFrame
    /\ trace = << >>
    /\ raised = "none"
    /\ optimizer = PlainOptimizer
    /\ heap = [o \in ObjIds |-> 0]
    /\ self_dict = WrapperDict(PlainOptimizer)

\* the loop's step() call for the current batch
LoopStep(closure, args, kwargs) ==
    /\ loop.active /\ ~loop.called
    /\ StepCall(closure, "None", args, kwargs)

\* the loop goes on to the next batch once step() has returned
LoopAdvance ==
    /\ loop.active /\ loop.called
    /\ pc = "idle" /\ raised = "none"
    /\ trainer.batch_idx + 1 < loop.num_batches
    /\ TrainerSetBatch(trainer.batch_idx + 1,
                       trainer.batch_idx + 2 = loop.num_batches)

NextLoop ==
    \/ \E c \in {"None", "function"}, p \in PassThroughInputs :
          LoopStep(c, p.args, p.kwargs)
    \/ \E ok \in BOOLEAN : StepReturn(ok)
    \/ LoopAdvance

SpecLoop == InitLoop /\ [][NextLoop]_vars

\* ------------------------------------------------------ trace queries
StepPaths == {"tpu", "amp", "default"}
BackendOps == {"xm.optimizer_step", "precision_backend.step", "optimizer.step"}

At(ops) == {k \in DOMAIN trace : trace[k].op \in ops}
Count(ops) == Cardinality(At(ops))

\* The scope entered by `enter` and left by `exit` is open when call k is made.
OpenAt(k, enter, exit) ==
    Cardinality({j \in 1..(k - 1) : trace[j].op = enter})
        > Cardinality({j \in 1..(k - 1) : trace[j].op = exit})

\* The last step() call reached a branch and has returned or raised.
CallOver == pc = "idle" /\ frame.path # "none"
ReturnedNormally == CallOver /\ raised = "none"

\* The wrapper is attached and its window is an integer >= 1.
WindowIsPositiveInt == IsInt(WindowUsed) /\ WindowUsed.val >= 1
PolicyReady == constructed /\ _trainer = "proxy" /\ WindowIsPositiveInt

\* ---------------------------------------------------------------- claims
\* C1: for every batch index i, window w >= 1 and final-batch flag f,
\* _should_accumulate is true exactly when (i+1) % w # 0 and f is false; and a
\* step() call without an override made on the final batch takes the step
\* branch.
C1_ShouldAccumulate ==
    /\ [](PolicyReady =>
            /\ _should_accumulate.raised = "none"
            /\ _should_accumulate.value
                 = ( (trainer.batch_idx + 1) % WindowUsed.val # 0
                     /\ ~trainer.num_training_batches_reached ))
    /\ [][ ( /\ pc = "idle" /\ pc' = "running"
             /\ frame'.make_optimizer_step_arg = "None"
             /\ trainer.num_training_batches_reached )
           => frame'.path \in StepPaths ]_vars

\* A call without override on a final batch that is no count boundary steps.
C1_Witness ==
    /\ pc = "running"
    /\ frame.make_optimizer_step_arg = "None"
    /\ frame.policy.is_final_batch
    /\ ~frame.policy.accumulation_done
    /\ frame.policy.accumulate_grad_batches.val >= 2
    /\ frame.path \in StepPaths

\* C2: for a window w >= 1, _accumulated_batches_reached() is true exactly
\* when (batch index + 1) % w = 0.
C2_AccumulatedBatchesReached ==
    PolicyReady =>
        /\ _accumulated_batches_reached.raised = "none"
        /\ _accumulated_batches_reached.value
             = ((trainer.batch_idx + 1) % WindowUsed.val = 0)

C2_Witness ==
    /\ PolicyReady
    /\ WindowUsed.val = 2
    /\ trainer.batch_idx = 3
    /\ _accumulated_batches_reached.value

\* C3: an explicit make_optimizer_step alone selects the branch: True takes a
\* backend step and resets the gradients, False only accumulates; the policy
\* is evaluated only when the override is absent.
C3_OverrideSelectsBranch ==
    /\ (frame.policy_used => frame.make_optimizer_step_arg = "None")
    /\ (frame.path # "none" /\ frame.make_optimizer_step_arg = "True") =>
          /\ frame.path \in StepPaths
          /\ Count(BackendOps) = 1
          /\ Count({"closure"}) = 0
          /\ (ReturnedNormally => Count({"optimizer.zero_grad"}) = 1)
    /\ (frame.path # "none" /\ frame.make_optimizer_step_arg = "False") =>
          /\ frame.path = "accumulate"
          /\ Count(BackendOps) = 0
          /\ Count({"optimizer.zero_grad"}) = 0
    /\ (frame.path # "none" /\ frame.make_optimizer_step_arg = "None") =>
          /\ frame.policy_used
          /\ (frame.path = "accumulate") = frame.policy.value

\* The override False accumulates although the batch is final.
C3_Witness ==
    /\ ReturnedNormally
    /\ frame.make_optimizer_step_arg = "False"
    /\ trainer.num_training_batches_reached
    /\ frame.path = "accumulate"
    /\ Count({"closure"}) = 1

\* C4: a step-branch call that returns normally invokes zero_grad exactly
\* once, after the backend path has completed; no zero_grad before that, and
\* none at all on the accumulate branch.
C4_ZeroGradOnceAfterStep ==
    /\ (ReturnedNormally /\ frame.path \in StepPaths) =>
          /\ Count({"optimizer.zero_grad"}) = 1
          /\ trace[Len(trace)].op = "optimizer.zero_grad"
          /\ \A k \in At(BackendOps) : k < Len(trace)
          /\ ~OpenAt(Len(trace), "profile.enter", "profile.exit")
    /\ (pc = "running" /\ frame.path \in StepPaths) =>
          Count({"optimizer.zero_grad"}) = 0
    /\ frame.path = "accumulate" => Count({"optimizer.zero_grad"}) = 0

C4_Witness ==
    /\ ReturnedNormally
    /\ frame.path = "default"
    /\ Count({"optimizer.zero_grad"}) = 1

\* C5: an accumulate-branch call invokes the closure (the supplied one or the
\* no-op substitute) exactly once, inside the sync-suspension scope, and no
\* optimizer, accelerator or precision-backend step.
C5_AccumulateRunsClosureInScope ==
    frame.path = "accumulate" =>
        /\ Count({"closure"}) = 1
        /\ \A k \in At({"closure"}) :
              /\ OpenAt(k, "block_ddp_sync.enter", "block_ddp_sync.exit")
              /\ trace[k].closure = frame.closure
        /\ frame.closure
             = (IF frame.closure_arg = "None" THEN "do_nothing_closure"
                ELSE frame.closure_arg)
        /\ Count(BackendOps) = 0

C5_Witness ==
    /\ CallOver
    /\ frame.path = "accumulate"
    /\ frame.closure_arg = "None"
    /\ Count({"closure"}) = 1

\* C6: a step() call whose closure is supplied and is not a plain function
\* raises MisconfigurationException and does nothing else, whatever
\* make_optimizer_step is.
C6_BadClosureRejected ==
    frame.closure_arg \in {"callable", "noncallable"} =>
        /\ raised = "MisconfigurationException"
        /\ pc = "idle"
        /\ trace = << >>
        /\ frame.path = "none"
        /\ ~frame.policy_used

C6_Witness ==
    /\ frame.closure_arg = "callable"
    /\ frame.make_optimizer_step_arg = "True"
    /\ _trainer = "proxy"
    /\ raised = "MisconfigurationException"

\* C7: construction with an integer n < 1 fails with
\* MisconfigurationException; with n >= 1 it succeeds and every later policy
\* decision uses n as the window, whatever trainer.accumulate_grad_batches is.
C7_IntegerWindow ==
    /\ [][ \A n \in (1 - MaxBelowOne)..MaxWindow :
             Construct(IntVal(n)) =>
                IF n < 1
                THEN initError' = "MisconfigurationException" /\ ~constructed'
                ELSE /\ initError' = "ok" /\ constructed'
                     /\ _accumulate_grad_batches' = IntVal(n)
                     /\ ~_use_accumulate_grad_batches_from_trainer' ]_vars
    /\ [][ ( /\ pc = "idle" /\ pc' = "running"
             /\ frame'.policy_used
             /\ IsInt(_accumulate_grad_batches) )
           => /\ frame'.policy.accumulate_grad_batches = _accumulate_grad_batches
              /\ frame'.policy.accumulation_done
                   = ((trainer.batch_idx + 1) % _accumulate_grad_batches.val = 0) ]_vars
    /\ [][ IsInt(_accumulate_grad_batches)
             => _accumulate_grad_batches' = _accumulate_grad_batches ]_vars

\* The wrapper's window 2 decides while the trainer holds 1.
C7_Witness ==
    /\ pc = "running"
    /\ frame.policy_used
    /\ _accumulate_grad_batches = IntVal(2)
    /\ frame.policy.accumulate_grad_batches = IntVal(2)
    /\ trainer.accumulate_grad_batches = IntVal(1)
    /\ ~frame.policy.accumulation_done

\* C8: construction with a non-integer accumulate_grad_batches is rejected
\* with MisconfigurationException and produces no wrapper.
C8_NonIntegerIsConfigurationError ==
    [][ \A v \in {StrVal, FloatVal(3)} :
          Construct(v) =>
             initError' = "MisconfigurationException" /\ ~constructed' ]_vars

\* C9: on the step branch the args and kwargs of step() reach the backend
\* step call unchanged, on each of the three paths.
C9_ArgsForwarded ==
    frame.path \in StepPaths =>
        \A k \in At(BackendOps) :
            trace[k].args = frame.args /\ trace[k].kwargs = frame.kwargs

\* C10: on the step branch the backend step routine is invoked inside a
\* profiling span opened by step(), on each of the three paths.
C10_BackendStepProfiled ==
    frame.path \in StepPaths =>
        \A k \in At(BackendOps) : OpenAt(k, "profile.enter", "profile.exit")

\* C11: an error raised by the backend step (or by the closure it runs)
\* leaves step() as the call's error, with no zero_grad and no second
\* invocation of the backend or the closure; an error raised by the closure
\* while accumulating leaves step() with no backend step and no zero_grad.
C11_RaisePropagates ==
    /\ [][ StepReturn(FALSE) =>
             /\ raised' = "Exception" /\ pc' = "idle"
             /\ \A k \in DOMAIN trace' :
                   trace'[k].op \in (BackendOps \cup {"closure", "optimizer.zero_grad"})
                      => k \in DOMAIN trace ]_vars
    /\ []( (CallOver /\ raised = "Exception") =>
             /\ Count({"optimizer.zero_grad"}) = 0
             /\ Count(BackendOps \cup {"closure"}) = 1
             /\ (frame.path = "accumulate" => Count(BackendOps) = 0) )

C11_Witness ==
    /\ CallOver
    /\ raised = "Exception"
    /\ frame.path = "amp"
    /\ Count(BackendOps) = 1

\* C12: a step() call made before _on_trainer_init, with no closure or a
\* plain function, raises for each value of make_optimizer_step, before the
\* closure, any backend step and zero_grad.
C12_UnattachedFailsFast ==
    ( /\ constructed /\ _trainer = "None"
      /\ frame.profiler_name # ""
      /\ frame.closure_arg \in {"None", "function"} ) =>
        /\ pc = "idle"
        /\ raised = "AttributeError"
        /\ trace = << >>
        /\ frame.path = "none"

C12_Witness ==
    /\ constructed /\ _trainer = "None"
    /\ frame.closure_arg = "function"
    /\ frame.make_optimizer_step_arg = "False"
    /\ raised = "AttributeError"

\* C13: a wrapper constructed without an accumulation count evaluates the
\* policy with trainer.accumulate_grad_batches as it is at the call.
C13_WindowReadLive ==
    [][ ( /\ pc = "idle" /\ pc' = "running"
          /\ frame'.policy_used
          /\ _use_accumulate_grad_batches_from_trainer )
        => /\ frame'.policy.accumulate_grad_batches = trainer.accumulate_grad_batches
           /\ frame'.policy.accumulation_done
                = ((trainer.batch_idx + 1) % trainer.accumulate_grad_batches.val = 0)
           /\ (frame'.path = "accumulate")
                = ( (trainer.batch_idx + 1) % trainer.accumulate_grad_batches.val # 0
                    /\ ~trainer.num_training_batches_reached ) ]_vars

\* The trainer's window was moved from its initial 1 to 2 and the call uses 2.
C13_Witness ==
    /\ pc = "running"
    /\ _use_accumulate_grad_batches_from_trainer
    /\ frame.policy_used
    /\ frame.policy.accumulate_grad_batches = IntVal(2)
    /\ frame.path = "accumulate"

\* C16: a step-branch call invokes exactly one backend routine: the
\* accelerator-native step when trainer.on_tpu is set (whatever the precision
\* backend is), else the precision backend's step when one is present, else
\* the wrapped optimizer's own step.
C16_OneBackendByPrecedence ==
    /\ [][ (pc = "idle" /\ pc' = "running" /\ frame'.make_optimizer_step = "True") =>
             /\ Cardinality({k \in DOMAIN trace' : trace'[k].op \in BackendOps}) = 1
             /\ \A k \in DOMAIN trace' :
                   trace'[k].op \in BackendOps =>
                      trace'[k].op = (IF trainer.on_tpu THEN "xm.optimizer_step"
                                      ELSE IF trainer.amp_backend THEN "precision_backend.step"
                                      ELSE "optimizer.step") ]_vars
    /\ [](frame.path \in StepPaths => Count(BackendOps) = 1)

\* Both flags are set and the accelerator-native step is the one invoked.
C16_Witness ==
    /\ pc = "running"
    /\ trainer.on_tpu /\ trainer.amp_backend
    /\ frame.path = "tpu"
    /\ Count({"xm.optimizer_step"}) = 1
    /\ Count({"precision_backend.step"}) = 0

\* C17: within a step() call the decision is taken once, before the closure
\* or a backend runs, and the branch stays the same when batch index,
\* final-batch flag or window change while the external code executes.
C17_DecisionStable ==
    /\ [][ pc = "running" =>
             /\ frame' = frame
             /\ (pc' = "idle" =>
                   IF frame.path \in StepPaths
                   THEN /\ \A k \in DOMAIN trace' :
                              trace'[k].op \notin {"closure", "block_ddp_sync.enter",
                                                   "block_ddp_sync.exit"}
                        /\ (raised' = "none") =
                              (\E k \in DOMAIN trace' : trace'[k].op = "optimizer.zero_grad")
                   ELSE /\ \A k \in DOMAIN trace' :
                              trace'[k].op \notin (BackendOps \cup {"optimizer.zero_grad"})
                        /\ trace'[Len(trace')].op = "block_ddp_sync.exit") ]_vars
    /\ [][ (pc = "idle" /\ pc' = "running" /\ frame'.policy_used) =>
             (frame'.path = "accumulate") = _should_accumulate.value ]_vars

\* While the backend step runs the trainer has moved on, so that the policy
\* would now accumulate.
C17_Witness ==
    /\ pc = "running"
    /\ frame.policy_used
    /\ frame.path \in StepPaths
    /\ PolicyReady
    /\ _should_accumulate.value

\* C18: the sync-suspension scope is entered only on the accumulate branch,
\* is closed whenever no step() call is in progress, and neither a backend
\* step nor zero_grad runs while it is open.
C18_SyncScopeBalanced ==
    /\ (frame.path # "accumulate" => Count({"block_ddp_sync.enter"}) = 0)
    /\ (pc = "idle" =>
          Count({"block_ddp_sync.enter"}) = Count({"block_ddp_sync.exit"}))
    /\ \A k \in At(BackendOps \cup {"optimizer.zero_grad"}) :
          ~OpenAt(k, "block_ddp_sync.enter", "block_ddp_sync.exit")
    /\ \A k \in At({"block_ddp_sync.exit"}) :
          OpenAt(k, "block_ddp_sync.enter", "block_ddp_sync.exit")

\* The closure raised while accumulating and the scope is closed again.
C18_Witness ==
    /\ CallOver
    /\ frame.path = "accumulate"
    /\ raised = "Exception"
    /\ Count({"block_ddp_sync.enter"}) = 1
    /\ Count({"block_ddp_sync.exit"}) = 1

\* C19: the profiling span around the backend step is named "optimizer_step"
\* when step() is called without a closure and "optimizer_step_and_closure"
\* when a closure is supplied.
C19_SpanNameFollowsClosure ==
    frame.path \in StepPaths =>
        \A k \in At({"profile.enter"}) :
            trace[k].name = (IF frame.closure_arg = "None" THEN "optimizer_step"
                             ELSE "optimizer_step_and_closure")

\* C14 as stated: right after construction the wrapper shows every attribute
\* of the optimizer but 'step' with the optimizer's value, and no later change
\* to the optimizer's attributes, a change inside param_groups included, shows
\* through the wrapper.
C14_OneTimeCopy ==
    /\ [][ (~constructed /\ constructed') =>
             \A n \in AttrNames \ {"step"} :
                optimizer.dict[n] # Absent =>
                   Lookup(self_dict, n)' = Lookup(optimizer.dict, n)' ]_vars
    /\ [][ (constructed /\ constructed') =>
             \A n \in WrapperNames : Lookup(self_dict, n)' = Lookup(self_dict, n) ]_vars

\* C14 as the code has it: the copy is taken once and is shallow.  Right after
\* construction the wrapper holds, under every key of optimizer.__dict__ but
\* 'step' and the wrapper's own '_optimizer', the very value the optimizer
\* holds; rebinding, adding or deleting an optimizer attribute later does not
\* show through the wrapper; a change made inside an object the wrapper
\* shares with the optimizer does.
C14_ShallowCopyOnce ==
    /\ [][ (~constructed /\ constructed') =>
             /\ \A n \in AttrNames \ {"step", "_optimizer"} :
                   self_dict'[n] = optimizer.dict[n]
             /\ self_dict'["step"] = Absent
             /\ self_dict'["_optimizer"] = RefVal(0) ]_vars
    /\ [][ (constructed /\ constructed') => self_dict' = self_dict ]_vars
    /\ [][ constructed =>
             \A o \in ObjIds, n \in WrapperNames :
                (heap'[o] # heap[o] /\ self_dict[n] = RefVal(o)) =>
                   /\ Lookup(self_dict, n)' # Lookup(self_dict, n)
                   /\ Lookup(self_dict, n)'.lr = heap'[o] ]_vars

\* The optimizer's param_groups was rebound after construction (the wrapper
\* still holds object 1) and object 1 was changed in place (the wrapper shows
\* the new learning rate).
C14_Witness ==
    /\ constructed
    /\ self_dict["param_groups"] = RefVal(1)
    /\ optimizer.dict["param_groups"] = RefVal(2)
    /\ Lookup(self_dict, "param_groups").lr = 1

\* C15: in a training loop with a fixed window w >= 1 and one step() call
\* per batch without override, at most w - 1 calls in a row take the
\* accumulate branch, and the call of the last batch takes the step branch
\* (and resets the gradients when it returns normally).
C15_WindowTruncatedAtLoopEnd ==
    loop.active =>
        /\ loop.run <= WindowUsed.val - 1
        /\ (loop.called => frame.path # "none")
        /\ (loop.called /\ trainer.batch_idx = loop.num_batches - 1) =>
              /\ frame.path \in StepPaths
              /\ loop.run = 0
              /\ (ReturnedNormally => Count({"optimizer.zero_grad"}) = 1)

\* Five batches with window 3: the call of the last batch steps although
\* (4 + 1) % 3 # 0.
C15_Witness ==
    /\ loop.active /\ loop.called
    /\ loop.num_batches = 5
    /\ trainer.batch_idx = 4
    /\ WindowUsed = IntVal(3)
    /\ ReturnedNormally
    /\ ~frame.policy.accumulation_done
    /\ frame.path \in StepPaths

====
